---- MODULE Spec2Model ----
(***************************************************************************)
(* Conversation controller of the Ocean Q&A frontend                       *)
(* (src/ai_qna_frontend/src/App.js, component App).                        *)
(*                                                                         *)
(* State: the three useState cells question, isAsking and messages, the    *)
(* values of question and isAsking captured by the handleSubmit closure of *)
(* the last committed render, the provider calls dispatched so far, the    *)
(* clock read by Date.now(), and the last event handled.                   *)
(*                                                                         *)
(* Text is a sequence of one-character strings.  A Message is a record     *)
(* [id, role, content, ts, error]; a Message built without an error field  *)
(* (userMsg, aiMsg, the welcome Message) has error = FALSE, which is how   *)
(* MessageBubble reads the missing field.  An id is the tuple of the       *)
(* literal part of the template string and the clock reading, so that two  *)
(* ids are equal exactly when the strings the code builds are equal.       *)
(*                                                                         *)
(* The Answer Provider (askAI) is modelled by its contract: a call that    *)
(* was dispatched settles at any later moment, either with an answer       *)
(* string or with a failure.  The stub in the source (900 ms, one canned   *)
(* answer) is one such provider.                                           *)
(*                                                                         *)
(* React runs an event handler of the last committed render and commits    *)
(* the re-render that the handler's state setters schedule before it       *)
(* dispatches the next event: in Spec an event is handled only when no     *)
(* re-render is owed (~Dirty).  SpecStale adds a submit that is handled    *)
(* while a re-render is owed, by the handler of the previous render.       *)
(***************************************************************************)
EXTENDS Integers, Sequences, FiniteSets, TLC

VARIABLES question, isAsking, messages, render, calls, now, lastEvent

vars == <<question, isAsking, messages, render, calls, now, lastEvent>>

\* ---- bounds ----
MaxLen == 2      \* longest draft the user types
MaxCalls == 2    \* accepted submissions in a session; the user stops typing after the last
MaxClock == 1    \* last clock reading

\* ---- text ----
Whitespace == {" "}
Chars == {" ", "a"}

RECURSIVE TextsOfLen(_)
TextsOfLen(n) ==
  IF n = 0 THEN {<<>>}
  ELSE {Append(s, c) : s \in TextsOfLen(n - 1), c \in Chars}

Drafts == UNION {TextsOfLen(n) : n \in 0..MaxLen}

RECURSIVE trimStart(_)
trimStart(s) ==
  IF s = <<>> THEN s
  ELSE IF Head(s) \in Whitespace THEN trimStart(Tail(s)) ELSE s

RECURSIVE trimEnd(_)
trimEnd(s) ==
  IF s = <<>> THEN s
  ELSE IF s[Len(s)] \in Whitespace THEN trimEnd(SubSeq(s, 1, Len(s) - 1)) ELSE s

trimLeadingOnly(s) == trimStart(s)

\* String.prototype.trim
trim(s) == trimEnd(trimStart(s))

\* what the provider may answer, and what it may fail with
Answers == {<<"o", "k">>, <<>>}
Reasons == {<<"n", "e", "t">>, <<"5", "0", "0">>}

ApologyText == <<"S", "o", "r", "r", "y">>
WelcomeText == <<"H", "i">>

\* ---- messages ----
welcomeMsg ==
  [id |-> <<"welcome">>, role |-> "assistant", content |-> WelcomeText,
   ts |-> 0, error |-> FALSE]

userMsgFlagged(q, t) ==
  [id |-> <<"u-", t>>, role |-> "user", content |-> q, ts |-> t, error |-> TRUE]

userMsg(q, t) ==
  [id |-> <<"u-", t>>, role |-> "user", content |-> q, ts |-> t, error |-> FALSE]

aiMsgFlagged(answer, t) ==
  [id |-> <<"a-", t>>, role |-> "assistant", content |-> answer, ts |-> t,
   error |-> TRUE]

aiMsg(answer, t) ==
  [id |-> <<"a-", t>>, role |-> "assistant", content |-> answer, ts |-> t,
   error |-> FALSE]

errMsgOfReason(err, t) ==
  [id |-> <<"e-", t>>, role |-> "assistant", content |-> err, ts |-> t,
   error |-> TRUE]

\* err is caught and not used
errMsg(err, t) ==
  [id |-> <<"e-", t>>, role |-> "assistant", content |-> ApologyText, ts |-> t,
   error |-> TRUE]

prependMsg(prev, m) == <<m>> \o prev

\* the functional updater (prev) => [...prev, m]
appendMsg(prev, m) == Append(prev, m)

\* ---- render ----
\* what a render of App captures for the handlers it creates
Snapshot == [question |-> question, isAsking |-> isAsking]

\* a state setter changed what the last committed render captured
Dirty == render # Snapshot

InitNoWelcome ==
  /\ question = <<>>
  /\ isAsking = FALSE
  /\ messages = <<>>
  /\ render = [question |-> <<>>, isAsking |-> FALSE]
  /\ calls = <<>>
  /\ now = 0
  /\ lastEvent = "init"

Init ==
  /\ question = <<>>
  /\ isAsking = FALSE
  /\ messages = <<welcomeMsg>>
  /\ render = [question |-> <<>>, isAsking |-> FALSE]
  /\ calls = <<>>
  /\ now = 0
  /\ lastEvent = "init"

\* React commits the re-render scheduled by the state setters
Render ==
  /\ Dirty
  /\ render' = Snapshot
  /\ UNCHANGED <<question, isAsking, messages, calls, now, lastEvent>>

updateDraftWhenIdle(text) ==
  /\ ~Dirty
  /\ Len(calls) < MaxCalls
  /\ ~isAsking
  /\ question' = text
  /\ lastEvent' = "updateDraft"
  /\ UNCHANGED <<isAsking, messages, render, calls, now>>

\* onChange of the textarea: setQuestion(e.target.value)
updateDraft(text) ==
  /\ ~Dirty
  /\ Len(calls) < MaxCalls
  /\ question' = text
  /\ lastEvent' = "updateDraft"
  /\ UNCHANGED <<isAsking, messages, render, calls, now>>

rejectedUngated(q, asking) == q = <<>>

rejectedBoth(q, asking) == q = <<>> /\ asking

rejectedAskingOnly(q, asking) == asking

\* the early return of handleSubmit: if (!q || isAsking) return
rejected(q, asking) == q = <<>> \/ asking

acceptKeepDraft(q) ==
  /\ messages' = appendMsg(messages, userMsg(q, now))
  /\ question' = question
  /\ isAsking' = TRUE
  /\ calls' = Append(calls, [q |-> q, status |-> "pending", answer |-> <<>>,
                             promise |-> "pending"])

\* handleSubmit past the early return, up to the await: the three state
\* setters and the call of askAI(q)
accept(q) ==
  /\ messages' = appendMsg(messages, userMsg(q, now))
  /\ question' = <<>>
  /\ isAsking' = TRUE
  /\ calls' = Append(calls, [q |-> q, status |-> "pending", answer |-> <<>>,
                             promise |-> "pending"])

\* handleSubmit from its call to the await of askAI, as the handler created
\* by the render snap runs it
handleSubmitWith(snap) ==
  LET q == trim(snap.question) IN
  /\ lastEvent' = "submit"
  /\ IF rejected(q, snap.isAsking)
     THEN UNCHANGED <<question, isAsking, messages, calls>>
     ELSE Len(calls) < MaxCalls /\ accept(q)
  /\ UNCHANGED <<render, now>>

\* onSubmit of the form
handleSubmit ==
  /\ ~Dirty
  /\ handleSubmitWith(render)

\* the calls of askAI that have not settled
Pending == {i \in 1..Len(calls) : calls[i].status = "pending"}

resolvedNoFinally(i, answer) ==
  /\ messages' = appendMsg(messages, aiMsg(answer, now))
  /\ isAsking' = isAsking
  /\ calls' = [calls EXCEPT ![i] = [@ EXCEPT !.status = "resolved",
                                             !.answer = answer,
                                             !.promise = "fulfilled"]]

\* handleSubmit after the await: rest of the try body, then finally
resolved(i, answer) ==
  /\ messages' = appendMsg(messages, aiMsg(answer, now))
  /\ isAsking' = FALSE
  /\ calls' = [calls EXCEPT ![i] = [@ EXCEPT !.status = "resolved",
                                             !.answer = answer,
                                             !.promise = "fulfilled"]]

failedSilently(i, err) ==
  /\ messages' = messages
  /\ isAsking' = FALSE
  /\ calls' = [calls EXCEPT ![i] = [@ EXCEPT !.status = "failed",
                                             !.promise = "fulfilled"]]

\* handleSubmit after the await: catch body, then finally
failed(i, err) ==
  /\ messages' = appendMsg(messages, errMsg(err, now))
  /\ isAsking' = FALSE
  /\ calls' = [calls EXCEPT ![i] = [@ EXCEPT !.status = "failed",
                                             !.promise = "fulfilled"]]

\* askAI(q) returns an answer
Resolve ==
  \E i \in Pending : \E answer \in Answers :
    /\ resolved(i, answer)
    /\ lastEvent' = "resolve"
    /\ UNCHANGED <<question, render, now>>

RejectRestoringDraft ==
  \E i \in Pending : \E err \in Reasons :
    /\ failed(i, err)
    /\ lastEvent' = "reject"
    /\ question' = calls[i].q
    /\ UNCHANGED <<render, now>>

\* askAI(q) throws
Reject ==
  \E i \in Pending : \E err \in Reasons :
    /\ failed(i, err)
    /\ lastEvent' = "reject"
    /\ UNCHANGED <<question, render, now>>

TickWithTimeout ==
  /\ now < MaxClock
  /\ now' = now + 1
  /\ isAsking' = FALSE
  /\ UNCHANGED <<question, messages, render, calls, lastEvent>>

\* the clock read by Date.now() advances
Tick ==
  /\ now < MaxClock
  /\ now' = now + 1
  /\ UNCHANGED <<question, isAsking, messages, render, calls, lastEvent>>

Next ==
  \/ \E text \in Drafts : updateDraft(text)
  \/ handleSubmit
  \/ Render
  \/ Resolve
  \/ Reject
  \/ Tick

Spec == Init /\ [][Next]_vars

\* the provider settles every call it was given, and React commits every
\* re-render it owes
LiveSpec == Spec /\ WF_vars(Resolve \/ Reject) /\ WF_vars(Render)

\* onSubmit of the form, dispatched before React has committed the re-render
\* that the previous handler scheduled (two events dispatched back to back in
\* one task): the handler that runs is still the one of the previous render
handleSubmitStale ==
  /\ Dirty
  /\ handleSubmitWith(render)

NextStale ==
  \/ Next
  \/ handleSubmitStale

SpecStale == Init /\ [][NextStale]_vars

\* ---- vocabulary of the properties ----
\* the step is the run of the handler or continuation named e
StepOf(e) == lastEvent' = e /\ now' = now /\ render' = render

LastMsg == messages[Len(messages)]

AllWhitespace(s) == \A i \in 1..Len(s) : s[i] \in Whitespace

\* c is s without its leading and trailing whitespace
IsTrimOf(c, s) ==
  \E i \in 1..(Len(s) + 1) : \E j \in 0..Len(s) :
    /\ c = SubSeq(s, i, j)
    /\ \A k \in 1..(i - 1) : s[k] \in Whitespace
    /\ \A k \in (j + 1)..Len(s) : s[k] \in Whitespace
    /\ c # <<>> => (s[i] \notin Whitespace /\ s[j] \notin Whitespace)

IsPrefix(s, t) == Len(s) <= Len(t) /\ SubSeq(t, 1, Len(s)) = s

\* ---- claims ----

C3_SubmitAppendsTrimmed ==
  /\ [][(StepOf("submit") /\ ~isAsking /\ ~AllWhitespace(question))
          => /\ Len(messages') = Len(messages) + 1
             /\ IsPrefix(messages, messages')
             /\ messages'[Len(messages')].role = "user"
             /\ IsTrimOf(messages'[Len(messages')].content, question)
             /\ Len(calls') = Len(calls) + 1
             /\ IsPrefix(calls, calls')
             /\ calls'[Len(calls')].q = messages'[Len(messages')].content
             /\ calls'[Len(calls')].status = "pending"]_vars
  /\ [](\A i \in 1..Len(messages) :
          messages[i].role = "user"
            => /\ messages[i].content # <<>>
               /\ Head(messages[i].content) \notin Whitespace
               /\ messages[i].content[Len(messages[i].content)] \notin Whitespace)

\* a draft with leading whitespace was accepted: the render still holds it
C3_Witness ==
  /\ lastEvent = "submit"
  /\ Dirty
  /\ render.question = <<" ", "a">>
  /\ LastMsg.role = "user"
  /\ LastMsg.content = <<"a">>
  /\ calls[Len(calls)].q = <<"a">>
  /\ calls[Len(calls)].status = "pending"

\* C4: when the outstanding call resolves with an answer, exactly one
\* assistant Message is appended, its content is that answer, its error flag
\* is false, and isAsking becomes false.
C4_SuccessAppendsAnswer ==
  [][StepOf("resolve")
       => \E i \in Pending :
            /\ calls'[i].status = "resolved"
            /\ Len(messages') = Len(messages) + 1
            /\ IsPrefix(messages, messages')
            /\ messages'[Len(messages')].role = "assistant"
            /\ messages'[Len(messages')].content = calls'[i].answer
            /\ messages'[Len(messages')].error = FALSE
            /\ isAsking
            /\ isAsking' = FALSE]_vars

\* the call resolved with the answer ok
C4_Witness ==
  /\ lastEvent = "resolve"
  /\ ~isAsking
  /\ Pending = {}
  /\ LastMsg.content = <<"o", "k">>
  /\ LastMsg.error = FALSE
  /\ calls[Len(calls)].answer = <<"o", "k">>

\* C5: when the outstanding call fails, for whatever reason, exactly one
\* assistant Message is appended with error = true and the fixed apology
\* content, isAsking becomes false, and the promise of handleSubmit is
\* fulfilled, not rejected.
C5_FailureAppendsApology ==
  [][StepOf("reject")
       => \E i \in Pending :
            /\ calls'[i].status = "failed"
            /\ calls'[i].promise = "fulfilled"
            /\ Len(messages') = Len(messages) + 1
            /\ IsPrefix(messages, messages')
            /\ messages'[Len(messages')].role = "assistant"
            /\ messages'[Len(messages')].content = ApologyText
            /\ messages'[Len(messages')].error = TRUE
            /\ isAsking
            /\ isAsking' = FALSE]_vars

\* the call failed
C5_Witness ==
  /\ lastEvent = "reject"
  /\ ~isAsking
  /\ calls[Len(calls)].status = "failed"
  /\ calls[Len(calls)].promise = "fulfilled"
  /\ LastMsg.error = TRUE
  /\ LastMsg.content = ApologyText

\* C6: a submit of an empty or whitespace-only draft changes nothing in any
\* state: no Message is appended, question keeps its untrimmed value, isAsking
\* is unchanged and no call is dispatched.
C6_BlankSubmitNoOp ==
  [][(StepOf("submit") /\ AllWhitespace(question))
       => UNCHANGED <<messages, question, isAsking, calls>>]_vars

\* a whitespace-only draft was submitted while no call was outstanding
C6_Witness ==
  /\ lastEvent = "submit"
  /\ question = <<" ", " ">>
  /\ ~isAsking
  /\ ~Dirty
  /\ Len(messages) = 3

\* C7: in the step in which a submission is accepted question becomes the
\* empty string, while the call it dispatched is still unsettled.
C7_DraftClearedOnAccept ==
  [][(StepOf("submit") /\ Len(calls') = Len(calls) + 1)
       => /\ question # <<>>
          /\ question' = <<>>
          /\ calls'[Len(calls')].status = "pending"]_vars

\* the draft aa was accepted and is gone before the call settles
C7_Witness ==
  /\ lastEvent = "submit"
  /\ question = <<>>
  /\ render.question = <<"a", "a">>
  /\ isAsking
  /\ Pending # {}

\* C8: in every reachable state the ids of the Messages are pairwise
\* distinct.
C8_IdsDistinct ==
  \A i, j \in 1..Len(messages) : i # j => messages[i].id # messages[j].id

C10_AppendOnly == [][IsPrefix(messages, messages')]_vars

\* the Conversation grew to its full length
C10_Witness ==
  /\ Len(messages) = 2 * MaxCalls + 1
  /\ lastEvent \in {"resolve", "reject"}

\* C11: with a provider that settles its calls, isAsking true leads to
\* isAsking false, on the success path and on the failure path alike, and a
\* submit of a non-blank draft made once the flag is false again is accepted.
C11_FlagReturns ==
  /\ isAsking ~> ~isAsking
  /\ [][(StepOf("submit") /\ ~isAsking /\ ~AllWhitespace(question)
           /\ Len(calls) >= 1)
          => (Len(calls') = Len(calls) + 1 /\ isAsking')]_vars

\* a second submission was accepted after the first call had failed
C11_Witness ==
  /\ Len(calls) = 2
  /\ calls[1].status = "failed"
  /\ calls[2].status = "pending"
  /\ lastEvent = "submit"
  /\ isAsking

C13_ErrorOnlyOnFailure ==
  \A i \in 1..Len(messages) :
    /\ messages[i].error
         => /\ messages[i].role = "assistant"
            /\ \E k \in 1..Len(calls) : i = 2 * k + 1 /\ calls[k].status = "failed"
    /\ messages[i].role = "user" => ~messages[i].error
    /\ i = 1 => ~messages[i].error
    /\ (\E k \in 1..Len(calls) : i = 2 * k + 1 /\ calls[k].status = "resolved")
         => ~messages[i].error

\* one call failed and the next was answered
C13_Witness ==
  /\ Len(messages) = 5
  /\ messages[3].error
  /\ ~messages[5].error
  /\ calls[1].status = "failed"
  /\ calls[2].status = "resolved"

\* C14: the initial state holds exactly the welcome Message, an assistant
\* Message without error flag, an empty question, isAsking false and no call.
C14_InitialState ==
  lastEvent = "init"
    => /\ Len(messages) = 1
       /\ messages[1].id = <<"welcome">>
       /\ messages[1].role = "assistant"
       /\ messages[1].content = WelcomeText
       /\ ~messages[1].error
       /\ question = <<>>
       /\ ~isAsking
       /\ calls = <<>>
       /\ ~Dirty

\* the state after construction, before any event
C14_Witness ==
  /\ lastEvent = "init"
  /\ now = 0
  /\ Len(messages) = 1
  /\ Pending = {}

\* the user can type: React owes no re-render and the session goes on
CanType == ~Dirty /\ Len(calls) < MaxCalls

\* C15: updateDraft(text) can be taken for every text, also while isAsking is
\* true, makes question equal to text and leaves messages, isAsking and the
\* calls as they were.
C15_UpdateDraftUnconditional ==
  /\ [](CanType
          => \A text \in Drafts :
               ENABLED (/\ Next
                        /\ StepOf("updateDraft")
                        /\ question' = text
                        /\ UNCHANGED <<messages, isAsking, calls>>))
  /\ [][StepOf("updateDraft")
          => (question' \in Drafts /\ UNCHANGED <<messages, isAsking, calls>>)]_vars

\* the user typed a draft while the call was outstanding
C15_Witness ==
  /\ lastEvent = "updateDraft"
  /\ question = <<"a", "a">>
  /\ isAsking
  /\ Pending = {1}
  /\ Len(messages) = 2

\* C16: the settlement of the call, by answer or by failure, leaves question
\* as it is: the submitted text is not put back and the text typed meanwhile
\* is neither cleared nor submitted.
C16_SettlementKeepsDraft ==
  [][(StepOf("resolve") \/ StepOf("reject"))
       => (question' = question /\ Len(calls') = Len(calls))]_vars

\* the call for a failed; the text typed meanwhile is still the draft
C16_Witness ==
  /\ lastEvent = "reject"
  /\ calls[1].q = <<"a">>
  /\ calls[1].status = "failed"
  /\ question = <<"a", " ">>
  /\ Len(calls) = 1

Settled == {k \in 1..Len(calls) : calls[k].status # "pending"}

C18_StaleSubmitRejected ==
  [][(StepOf("submit") /\ isAsking /\ ~render.isAsking /\ Pending # {})
       => UNCHANGED <<messages, calls>>]_vars
====
